---- MODULE Spec2Model ----
(***************************************************************************)
(* Wall/floor segmentation overlay (src/src/MainNew.ts, lines 1-224).      *)
(*                                                                         *)
(* The module models                                                       *)
(*   - the pure array transforms of the pipeline (argmax decode, mask      *)
(*     building, dilation), each as an operator computed the way the code  *)
(*     computes it, and                                                    *)
(*   - run(image), an async function whose invocations interleave at their *)
(*     await points and all draw on one module-level canvas.               *)
(* Typed arrays are functions over 0..n-1, indexed as in the code.         *)
(***************************************************************************)
EXTENDS Integers, Sequences, FiniteSets, TLC

VARIABLES
    pc,        \* pc[r]: where invocation r of run() is suspended or how it ended
    classIds,  \* classIds[r]: the class-id grid run r decoded (run-local)
    canvas,    \* the module-level display canvas (ctx), shared by all runs
    promise,   \* promise[r]: the state of the promise run() returned for r
    log,       \* log[r]: what has happened in run r, in order (history)
    arg,       \* harness of the pure functions: the input
    ret,       \* harness of the pure functions: the output
    called,    \* harness of the pure functions: whether the function has run
    loop       \* harness of the decode loop: its locals i, c, maxScore, maxClass

vars == <<pc, classIds, canvas, promise, log, arg, ret, called, loop>>

(***************************************************************************)
(* Bounds of the model.                                                    *)
(***************************************************************************)
MaxRuns == 2       \* invocations of run() that may overlap
MaxCells == 9      \* most cells (width * height) of a mask given to dilate
MaxLen == 4        \* longest class-id grid given to the mask builder
MaxClasses == 3    \* most classes of an exhaustively enumerated score tensor
MaxScale == 2      \* largest canvas-to-mask scale of a pixel-level overlay

(***************************************************************************)
(* Program constants.                                                      *)
(***************************************************************************)
radius == 1            \* dilate: const radius = 1
WallClassId == 0       \* outputClasses[i] === 0
FloorClassId == 3      \* outputClasses[i] === 3
NegInfinity == -1      \* let maxScore = -Infinity: below every finite score
Uint8Range == 256      \* a Uint8Array element keeps its value modulo 2^8

(***************************************************************************)
(* dilate(mask, width, height): for every set cell, in row-major order,    *)
(* set the in-bounds cells of its 3x3 neighbourhood in a zeroed result.    *)
(***************************************************************************)
NeighbourOffsetsNoCentre ==
    {d \in (-radius..radius) \X (-radius..radius) : d # <<0, 0>>}

\* for (dy = -radius; dy <= radius; dy++) for (dx = -radius; dx <= radius; dx++)
NeighbourOffsets ==
    (-radius..radius) \X (-radius..radius)

InBoundsRowsOnly(nx, ny, width, height) ==
    ny >= 0 /\ ny < height

\* if (nx >= 0 && nx < width && ny >= 0 && ny < height)
InBounds(nx, ny, width, height) ==
    nx >= 0 /\ nx < width /\ ny >= 0 /\ ny < height

\* The body of the x/y loops for the cell idx = y * width + x.
DilateCell(result, mask, width, height, idx) ==
    LET x == idx % width
        y == idx \div width
    IN  IF mask[idx] = 0
        THEN result
        ELSE [k \in DOMAIN result |->
                IF \E d \in NeighbourOffsets :
                      LET nx == x + d[1]
                          ny == y + d[2]
                      IN  InBounds(nx, ny, width, height) /\ ny * width + nx = k
                THEN 1
                ELSE result[k]]

RECURSIVE DilateLoop(_, _, _, _, _)
DilateLoop(result, mask, width, height, idx) ==
    IF idx >= width * height
    THEN result
    ELSE DilateLoop(DilateCell(result, mask, width, height, idx),
                    mask, width, height, idx + 1)

dilate(mask, width, height) ==
    DilateLoop([k \in DOMAIN mask |-> 0], mask, width, height, 0)

(***************************************************************************)
(* The two mask loops of drawSegmentationOverlay.                          *)
(***************************************************************************)
wallMaskInverted(outputClasses) ==
    [i \in DOMAIN outputClasses |->
        IF outputClasses[i] # WallClassId THEN 1 ELSE 0]

\* const wallMask = new Uint8Array(n); if (outputClasses[i] === 0) wallMask[i] = 1
wallMask(outputClasses) ==
    [i \in DOMAIN outputClasses |->
        IF outputClasses[i] = WallClassId THEN 1 ELSE 0]

\* const floorMask = new Uint8Array(n); if (outputClasses[i] === 3) floorMask[i] = 1
floorMask(outputClasses) ==
    [i \in DOMAIN outputClasses |->
        IF outputClasses[i] = FloorClassId THEN 1 ELSE 0]

(***************************************************************************)
(* The argmax decode loop of run().  An output tensor is the record        *)
(* [numClasses, outHeight, outWidth, data] of output.dims[1..3] and        *)
(* output.data; the score of class c at pixel i is                         *)
(* data[c * outWidth * outHeight + i].                                     *)
(***************************************************************************)
BetterOrEqual(score, maxScore) == score >= maxScore

\* if (score > maxScore)
Better(score, maxScore) == score > maxScore

InitialMaxClassSentinel == 0 - 1

\* let maxClass = 0
InitialMaxClass == 0

\* classIds[i] = maxClass, classIds being a Uint8Array
StoreUint8(v) == v % Uint8Range

\* One iteration of the class loop at pixel i: the new <<maxScore, maxClass>>.
ScanClass(output, i, c, maxScore, maxClass, npix) ==
    LET score == output.data[c * npix + i]
    IN  IF Better(score, maxScore) THEN <<score, c>> ELSE <<maxScore, maxClass>>

\* for (let c = 0; c < numClasses; c++) { ... } from class c on
RECURSIVE ArgmaxScan(_, _, _, _, _, _)
ArgmaxScan(output, i, c, maxScore, maxClass, npix) ==
    IF c >= output.numClasses
    THEN maxClass
    ELSE LET m == ScanClass(output, i, c, maxScore, maxClass, npix)
         IN  ArgmaxScan(output, i, c + 1, m[1], m[2], npix)

\* const classIds = new Uint8Array(outWidth * outHeight); for (i ...) { ... }
decode(output) ==
    LET npix == output.outWidth * output.outHeight
    IN  [i \in 0..(npix - 1) |->
            StoreUint8(ArgmaxScan(output, i, 0, NegInfinity, InitialMaxClass, npix))]

(***************************************************************************)
(* State of the run() invocations before any has started; the harnesses    *)
(* of the pure functions leave it alone.                                   *)
(***************************************************************************)
Runs == 1..MaxRuns
NoGrid == <<>>
\* canvas.base 0: no image drawn
EmptyCanvas == [base |-> 0, layers |-> <<>>]

RunsIdle ==
    /\ pc = [r \in Runs |-> "idle"]
    /\ classIds = [r \in Runs |-> NoGrid]
    /\ canvas = EmptyCanvas
    /\ promise = [r \in Runs |-> "none"]
    /\ log = [r \in Runs |-> <<>>]

runVars == <<pc, classIds, canvas, promise, log>>
NoLoop == <<>>
fnVars == <<arg, ret, called, loop>>

(***************************************************************************)
(* Harness of dilate: every mask of every shape of at most MaxCells cells,  *)
(* and the 4x4 mask whose centre 2x2 block is set.                         *)
(***************************************************************************)
Masks(width, height) == [0..(width * height - 1) -> {0, 1}]

CentreBlock4x4 ==
    [k \in 0..15 |-> IF k \in {5, 6, 9, 10} THEN 1 ELSE 0]

DilateInputs ==
    UNION {{[mask |-> m, width |-> d[1], height |-> d[2]] :
                m \in Masks(d[1], d[2])} :
           d \in {dd \in (1..MaxCells) \X (1..MaxCells) : dd[1] * dd[2] <= MaxCells}}
    \cup {[mask |-> CentreBlock4x4, width |-> 4, height |-> 4]}

InitDilate ==
    /\ RunsIdle
    /\ arg \in DilateInputs
    /\ ret = <<>>
    /\ called = FALSE
    /\ loop = NoLoop

CallDilate ==
    /\ ~called
    /\ ret' = dilate(arg.mask, arg.width, arg.height)
    /\ called' = TRUE
    /\ UNCHANGED <<arg, loop, runVars>>

NextDilate == CallDilate

SpecDilate == InitDilate /\ [][NextDilate]_vars

\* The cell (x, y) of a width-wide row-major array.
At(a, x, y, width) == a[y * width + x]

\* C6: dilate is the single-pass square dilation of radius 1: an output cell
\* is set exactly when some in-grid input cell within Chebyshev distance 1 of
\* it is set (no wraparound between rows, cells farther away stay unset), the
\* output has the input's length, and the 4x4 mask whose centre 2x2 block is
\* set dilates to all 16 cells set.
C6_DilateIsSquareRadius1 ==
    called =>
        /\ DOMAIN ret = DOMAIN arg.mask
        /\ \A x \in 0..(arg.width - 1), y \in 0..(arg.height - 1) :
              At(ret, x, y, arg.width) \in {0, 1}
              /\ (At(ret, x, y, arg.width) = 1
                  <=> \E x2 \in 0..(arg.width - 1), y2 \in 0..(arg.height - 1) :
                         /\ x - x2 \in -1..1
                         /\ y - y2 \in -1..1
                         /\ At(arg.mask, x2, y2, arg.width) = 1)
        /\ (arg.mask = CentreBlock4x4 /\ arg.width = 4
              => \A k \in 0..15 : ret[k] = 1)

\* Reached: the 4x4 centre block dilated to the full grid.
C6_Witness ==
    /\ called
    /\ arg.width = 4 /\ arg.height = 4 /\ arg.mask = CentreBlock4x4
    /\ \A k \in 0..15 : ret[k] = 1

\* Reached: a set cell at a row end does not leak into the next row, and a
\* cell two columns away stays unset.
C6_WitnessNoWrap ==
    /\ called
    /\ arg.width = 3 /\ arg.height = 2
    /\ arg.mask = [k \in 0..5 |-> IF k = 2 THEN 1 ELSE 0]
    /\ ret = [k \in 0..5 |-> IF k \in {1, 2, 4, 5} THEN 1 ELSE 0]

\* C7: dilation never unsets a set pixel: dilate(M)[i] >= M[i] for every i.
C7_DilateInflationary ==
    called => \A i \in DOMAIN arg.mask : ret[i] >= arg.mask[i]

\* Reached: a mask with set cells has been dilated and every one is still set.
C7_Witness ==
    /\ called
    /\ \E i \in DOMAIN arg.mask : arg.mask[i] = 1
    /\ \E i \in DOMAIN arg.mask : arg.mask[i] = 0 /\ ret[i] = 1
    /\ \A i \in DOMAIN arg.mask : arg.mask[i] = 1 => ret[i] = 1

(***************************************************************************)
(* Harness of the mask loops: every class-id grid of at most MaxLen cells  *)
(* over the class ids 0..3 (wall, two other classes, floor).               *)
(***************************************************************************)
MaskInputs ==
    UNION {[0..(n - 1) -> 0..FloorClassId] : n \in 1..MaxLen}

InitMask ==
    /\ RunsIdle
    /\ arg \in MaskInputs
    /\ ret = <<>>
    /\ called = FALSE
    /\ loop = NoLoop

CallMasks ==
    /\ ~called
    /\ ret' = [wall |-> wallMask(arg), floor |-> floorMask(arg)]
    /\ called' = TRUE
    /\ UNCHANGED <<arg, loop, runVars>>

NextMask == CallMasks

SpecMask == InitMask /\ [][NextMask]_vars

\* C5: for the wall mask (c = 0) and the floor mask (c = 3) built from a
\* class-id grid G, mask[i] = 1 if and only if G[i] = c, every other entry is
\* 0, and the mask has the length of G.
C5_MaskIffClass ==
    called =>
        /\ DOMAIN ret.wall = DOMAIN arg
        /\ DOMAIN ret.floor = DOMAIN arg
        /\ \A i \in DOMAIN arg :
              /\ ret.wall[i] \in {0, 1}
              /\ ret.floor[i] \in {0, 1}
              /\ (ret.wall[i] = 1 <=> arg[i] = 0)
              /\ (ret.floor[i] = 1 <=> arg[i] = 3)

\* Reached: masks built from a grid holding wall, floor and another class.
C5_Witness ==
    /\ called
    /\ \E i, j, k \in DOMAIN arg :
          /\ arg[i] = 0 /\ ret.wall[i] = 1 /\ ret.floor[i] = 0
          /\ arg[j] = 3 /\ ret.floor[j] = 1 /\ ret.wall[j] = 0
          /\ arg[k] = 2 /\ ret.wall[k] = 0 /\ ret.floor[k] = 0

(***************************************************************************)
(* Harness of the decode loop, one loop iteration per step.  Scores are    *)
(* -Infinity and two finite values; the tensors are all those of           *)
(* 1..MaxClasses classes over the shapes of OutShapes, and three tensors   *)
(* of 257 classes and one pixel, whose class ids do not all fit a          *)
(* Uint8Array element.                                                     *)
(***************************************************************************)
Scores == {NegInfinity, 0, 1}

\* <<outWidth, outHeight>>
OutShapes == {<<1, 1>>, <<2, 1>>, <<1, 2>>}

Tensor(numClasses, outWidth, outHeight, data) ==
    [numClasses |-> numClasses, outHeight |-> outHeight,
     outWidth |-> outWidth, data |-> data]

SmallTensors ==
    UNION {{Tensor(n, d[1], d[2], data) :
                data \in [0..(n * d[1] * d[2] - 1) -> Scores]} :
           n \in 1..MaxClasses, d \in OutShapes}

\* 257 classes, one pixel: score 1 for class peak, 0 for the others.
WideTensor(peak) ==
    Tensor(Uint8Range + 1, 1, 1,
           [k \in 0..Uint8Range |-> IF k = peak THEN 1 ELSE 0])

WideTensors == {WideTensor(Uint8Range), WideTensor(Uint8Range - 1), WideTensor(0)}

NumPixels(output) == output.outWidth * output.outHeight

\* let maxScore = -Infinity; let maxClass = 0; for (let c = 0; ...
LoopAt(i) ==
    [i |-> i, c |-> 0, maxScore |-> NegInfinity, maxClass |-> InitialMaxClass]

\* The loop is entered with classIds a zeroed Uint8Array.
InitDecode ==
    /\ RunsIdle
    /\ arg \in SmallTensors \cup WideTensors
    /\ ret = [i \in 0..(NumPixels(arg) - 1) |-> 0]
    /\ called = FALSE
    /\ loop = LoopAt(0)

\* One iteration of the inner loop over the classes.
DecodeClass ==
    /\ ~called
    /\ loop.c < arg.numClasses
    /\ LET m == ScanClass(arg, loop.i, loop.c, loop.maxScore, loop.maxClass,
                          NumPixels(arg))
       IN  loop' = [loop EXCEPT !.c = @ + 1, !.maxScore = m[1], !.maxClass = m[2]]
    /\ UNCHANGED <<arg, ret, called, runVars>>

\* classIds[i] = maxClass; i++
DecodeStore ==
    /\ ~called
    /\ loop.c >= arg.numClasses
    /\ ret' = [ret EXCEPT ![loop.i] = StoreUint8(loop.maxClass)]
    /\ loop' = LoopAt(loop.i + 1)
    /\ called' = (loop.i + 1 >= NumPixels(arg))
    /\ UNCHANGED <<arg, runVars>>

NextDecode == DecodeClass \/ DecodeStore

SpecDecode == InitDecode /\ [][NextDecode]_vars

Pixels(output) == 0..(output.outWidth * output.outHeight - 1)
Classes(output) == 0..(output.numClasses - 1)
ScoreOf(output, c, i) == output.data[c * output.outWidth * output.outHeight + i]

\* c is the lowest class index whose score at pixel i is the maximum.
IsLowestArgmax(output, c, i) ==
    /\ c \in Classes(output)
    /\ \A c2 \in Classes(output) : ScoreOf(output, c2, i) <= ScoreOf(output, c, i)
    /\ \A c2 \in 0..(c - 1) : ScoreOf(output, c2, i) < ScoreOf(output, c, i)

\* C8 as stated: for every pixel the class id the decoder yields is a class
\* of maximal score there, and the lowest such class.
C8_DecodedIsLowestArgmax ==
    called => \A i \in Pixels(arg) : IsLowestArgmax(arg, ret[i], i)

\* C8 as amended: the class id the decoder stores is the lowest class of
\* maximal score reduced modulo 256, so it is that class itself for every
\* tensor of at most 256 classes.
C8_DecodedIsLowestArgmaxMod256 ==
    called =>
        \A i \in Pixels(arg) :
            /\ \E c \in Classes(arg) :
                  IsLowestArgmax(arg, c, i) /\ ret[i] = c % 256
            /\ (arg.numClasses <= 256 => IsLowestArgmax(arg, ret[i], i))

\* Reached: a pixel at which two classes tie for the maximum, above a third
\* one, decoded to the lower of the two.
C8_Witness ==
    /\ called
    /\ arg.numClasses = 3
    /\ \E i \in Pixels(arg) :
          /\ ScoreOf(arg, 0, i) < ScoreOf(arg, 1, i)
          /\ ScoreOf(arg, 1, i) = ScoreOf(arg, 2, i)
          /\ ret[i] = 1

\* C9: the class-id grid has one entry per pixel and every entry is a valid
\* index of the class axis: 0 <= classIds[i] < numClasses.
C9_ClassIdInRange ==
    called =>
        /\ DOMAIN ret = Pixels(arg)
        /\ \A i \in Pixels(arg) : ret[i] >= 0 /\ ret[i] < arg.numClasses

\* Reached: a pixel where no score beats -Infinity keeps the initial class 0,
\* next to a pixel decoded to the last class.
C9_Witness ==
    /\ called
    /\ arg.numClasses = MaxClasses
    /\ \E i, j \in Pixels(arg) :
          /\ \A c \in Classes(arg) : ScoreOf(arg, c, i) = NegInfinity
          /\ ret[i] = 0
          /\ ret[j] = arg.numClasses - 1

\* Reached: a 257-class tensor whose best class, 256, is stored as 0.
C9_WitnessWide ==
    /\ called
    /\ arg.numClasses > 256
    /\ IsLowestArgmax(arg, 256, 0)
    /\ ret[0] = 0

(***************************************************************************)
(* run(image) and drawSegmentationOverlay.                                 *)
(*                                                                         *)
(* Invocation r of run() draws image r.  It is suspended at                *)
(*   awaitModel         const session = await loadModel()                  *)
(*   awaitInfer         const results = await session.run(feeds)           *)
(*   awaitWallTexture   await loadTexture("/Textures/Floor.webp")          *)
(*   awaitFloorTexture  await loadTexture("/Textures/Floor1.jpg")          *)
(* and everything between two awaits is one step.  The display canvas is   *)
(* the image drawn on it (base, 0 for none) and the layers drawn over it   *)
(* since, bottom first; a layer is [kind, run, mask], mask being the       *)
(* dilated mask it was rasterised from.                                    *)
(***************************************************************************)
\* The output tensor whose best class at pixel i is grid[i].
OneHot(grid, numClasses, outWidth, outHeight) ==
    Tensor(numClasses, outWidth, outHeight,
           [k \in 0..(numClasses * outWidth * outHeight - 1) |->
               IF grid[k % (outWidth * outHeight)] = k \div (outWidth * outHeight)
               THEN 1 ELSE 0])

Grid(seq) == [i \in 0..(Len(seq) - 1) |-> seq[i + 1]]

\* Output tensors the engine may return: 4 classes over a 3 x 2 mask grid.
\* Wall column and floor column; no wall and no floor; one wall cell; all floor.
SampleOutputs ==
    {OneHot(Grid(g), 4, 3, 2) :
        g \in {<<0, 2, 3, 0, 2, 3>>, <<2, 1, 2, 2, 1, 2>>,
               <<0, 2, 2, 2, 2, 2>>, <<3, 3, 3, 3, 3, 3>>}}

Append2(seq, a, b) == Append(Append(seq, a), b)

\* canvas.width = width; canvas.height = height; ctx.clearRect(...);
\* ctx.drawImage(image, 0, 0, width, height): setting the size resets the canvas.
DrawImage(cv, image) == [base |-> image, layers |-> <<>>]

CompositeFloorFirst(cv, wallLayer, floorLayer) ==
    [cv EXCEPT !.layers = Append2(@, floorLayer, wallLayer)]

\* ctx.drawImage(offscreen, ...); ctx.drawImage(floorCanvas, ...)
Composite(cv, wallLayer, floorLayer) ==
    [cv EXCEPT !.layers = Append2(@, wallLayer, floorLayer)]

\* The wall layer: the pattern filled over the cells of the dilated wall mask.
WallLayer(r, outputClasses, maskWidth, maskHeight) ==
    [kind |-> "wall", run |-> r,
     mask |-> dilate(wallMask(outputClasses), maskWidth, maskHeight)]

\* The floor layer: the sheared pattern kept where the dilated floor mask is set.
FloorLayer(r, outputClasses, maskWidth, maskHeight) ==
    [kind |-> "floor", run |-> r,
     mask |-> dilate(floorMask(outputClasses), maskWidth, maskHeight)]

Logged(r, event) == log' = [log EXCEPT ![r] = Append(@, event)]

\* The files a change event can carry: none (files?.[0] undefined), or a
\* file whose MIME type is empty or <<top-level type, subtype>>.
NoFile == [present |-> FALSE]
Files ==
    {NoFile} \cup {[present |-> TRUE, type |-> t] :
                      t \in {<<>>, <<"text", "plain">>, <<"image", "png">>}}

\* What the history records of a submitted file: its top-level type.
FileEvent(file) ==
    IF ~file.present THEN "noFile"
    ELSE IF file.type = <<>> THEN "untyped"
    ELSE file.type[1]

AnyType(type) == TRUE

\* file.type.startsWith("image/")
StartsWithImage(type) == type # <<>> /\ type[1] = "image"

\* The change listener, up to img.src = objectURL.  Without a file, or with a
\* file whose type does not start with "image/", it returns at once;
\* otherwise it creates the object URL and the Image and leaves the image
\* loading.  Submissions are numbered in the order of their change events.
Change(r) ==
    /\ pc[r] = "idle"
    /\ \A q \in 1..(r - 1) : pc[q] # "idle"
    /\ \E file \in Files :
        /\ Logged(r, FileEvent(file))
        /\ IF ~file.present \/ ~StartsWithImage(file.type)
           THEN pc' = [pc EXCEPT ![r] = "rejected"]
           ELSE pc' = [pc EXCEPT ![r] = "loading"]
    /\ UNCHANGED <<classIds, canvas, promise, fnVars>>

\* The file does not decode: the Image fires error, for which the listener
\* set no handler, so run() is never called and the object URL stays.
ImageError(r) ==
    /\ pc[r] = "loading"
    /\ pc' = [pc EXCEPT ![r] = "undecodable"]
    /\ Logged(r, "imgError")
    /\ UNCHANGED <<classIds, canvas, promise, fnVars>>

\* img.onload = () => { run(img); URL.revokeObjectURL(objectURL); }: run()
\* calls loadModel() and awaits it.
StartRun(r) ==
    /\ pc[r] = "loading"
    /\ pc' = [pc EXCEPT ![r] = "awaitModel"]
    /\ promise' = [promise EXCEPT ![r] = "pending"]
    /\ Logged(r, "run")
    /\ UNCHANGED <<classIds, canvas, fnVars>>

ModelNullAfterDraw(r) ==
    /\ pc[r] = "awaitModel"
    /\ pc' = [pc EXCEPT ![r] = "end"]
    /\ promise' = [promise EXCEPT ![r] = "fulfilled"]
    /\ canvas' = DrawImage(canvas, r)
    /\ Logged(r, "modelNull")
    /\ UNCHANGED <<classIds, fnVars>>

\* loadModel: if (!ort.env.wasm) return null;  run: if (!session) return;
ModelNull(r) ==
    /\ pc[r] = "awaitModel"
    /\ pc' = [pc EXCEPT ![r] = "end"]
    /\ promise' = [promise EXCEPT ![r] = "fulfilled"]
    /\ Logged(r, "modelNull")
    /\ UNCHANGED <<classIds, canvas, fnVars>>

\* loadModel: catch (error) { console.error(...); throw error; }
ModelThrew(r) ==
    /\ pc[r] = "awaitModel"
    /\ pc' = [pc EXCEPT ![r] = "end"]
    /\ promise' = [promise EXCEPT ![r] = "rejected"]
    /\ Logged(r, "modelThrew")
    /\ UNCHANGED <<classIds, canvas, fnVars>>

\* The session is there: run() sizes and clears the canvas and draws the image,
\* preprocessImage sizes the canvas and draws the image again, session.run starts.
ModelLoaded(r) ==
    /\ pc[r] = "awaitModel"
    /\ pc' = [pc EXCEPT ![r] = "awaitInfer"]
    /\ canvas' = DrawImage(DrawImage(canvas, r), r)
    /\ log' = [log EXCEPT ![r] = Append2(Append2(@, "modelLoaded", "drawImage"),
                                            "drawImage", "sessionRun")]
    /\ UNCHANGED <<classIds, promise, fnVars>>

\* await session.run(feeds) rejects.
InferRejected(r) ==
    /\ pc[r] = "awaitInfer"
    /\ pc' = [pc EXCEPT ![r] = "end"]
    /\ promise' = [promise EXCEPT ![r] = "rejected"]
    /\ Logged(r, "inferRejected")
    /\ UNCHANGED <<classIds, canvas, fnVars>>

\* session.run resolves with no usable output: results[Object.keys(results)[0]]
\* is undefined and output.dims throws.
DecodeThrew(r) ==
    /\ pc[r] = "awaitInfer"
    /\ pc' = [pc EXCEPT ![r] = "end"]
    /\ promise' = [promise EXCEPT ![r] = "rejected"]
    /\ Logged(r, "decodeThrew")
    /\ UNCHANGED <<classIds, canvas, fnVars>>

\* session.run resolves: the class ids are decoded and drawSegmentationOverlay
\* runs up to its first await, the wall texture.
InferResolved(r) ==
    /\ pc[r] = "awaitInfer"
    /\ \E output \in SampleOutputs :
          classIds' = [classIds EXCEPT ![r] =
                          [grid |-> decode(output),
                           outWidth |-> output.outWidth,
                           outHeight |-> output.outHeight]]
    /\ pc' = [pc EXCEPT ![r] = "awaitWallTexture"]
    /\ Logged(r, "decoded")
    /\ UNCHANGED <<canvas, promise, fnVars>>

WallTextureLoadedDrawsWall(r) ==
    /\ pc[r] = "awaitWallTexture"
    /\ LET c == classIds[r]
       IN  canvas' = [canvas EXCEPT !.layers =
                         Append(@, WallLayer(r, c.grid, c.outWidth, c.outHeight))]
    /\ pc' = [pc EXCEPT ![r] = "awaitFloorTexture"]
    /\ log' = [log EXCEPT ![r] = Append(Append(@, "wallTextureLoaded"), "drawWall")]
    /\ UNCHANGED <<classIds, promise, fnVars>>

\* loadTexture: img.onload = () => resolve(img), then the floor texture is asked for.
WallTextureLoaded(r) ==
    /\ pc[r] = "awaitWallTexture"
    /\ pc' = [pc EXCEPT ![r] = "awaitFloorTexture"]
    /\ Logged(r, "wallTextureLoaded")
    /\ UNCHANGED <<classIds, canvas, promise, fnVars>>

\* loadTexture: img.onerror = reject
WallTextureError(r) ==
    /\ pc[r] = "awaitWallTexture"
    /\ pc' = [pc EXCEPT ![r] = "end"]
    /\ promise' = [promise EXCEPT ![r] = "rejected"]
    /\ Logged(r, "wallTextureError")
    /\ UNCHANGED <<classIds, canvas, fnVars>>

\* The floor texture loads: the rest of drawSegmentationOverlay runs without
\* suspending, building both layers and drawing them on the display canvas.
FloorTextureLoaded(r) ==
    /\ pc[r] = "awaitFloorTexture"
    /\ LET c == classIds[r]
       IN  canvas' = Composite(canvas,
                               WallLayer(r, c.grid, c.outWidth, c.outHeight),
                               FloorLayer(r, c.grid, c.outWidth, c.outHeight))
    /\ pc' = [pc EXCEPT ![r] = "end"]
    /\ promise' = [promise EXCEPT ![r] = "fulfilled"]
    /\ log' = [log EXCEPT ![r] = Append2(Append(@, "floorTextureLoaded"),
                                            "drawWall", "drawFloor")]
    /\ UNCHANGED <<classIds, fnVars>>

\* loadTexture: img.onerror = reject
FloorTextureError(r) ==
    /\ pc[r] = "awaitFloorTexture"
    /\ pc' = [pc EXCEPT ![r] = "end"]
    /\ promise' = [promise EXCEPT ![r] = "rejected"]
    /\ Logged(r, "floorTextureError")
    /\ UNCHANGED <<classIds, canvas, fnVars>>

Init ==
    /\ RunsIdle
    /\ arg = <<>>
    /\ ret = <<>>
    /\ called = FALSE
    /\ loop = NoLoop

Next ==
    \E r \in Runs :
        \/ Change(r)
        \/ ImageError(r)
        \/ StartRun(r)
        \/ ModelNull(r)
        \/ ModelThrew(r)
        \/ ModelLoaded(r)
        \/ InferRejected(r)
        \/ DecodeThrew(r)
        \/ InferResolved(r)
        \/ WallTextureLoaded(r)
        \/ WallTextureError(r)
        \/ FloorTextureLoaded(r)
        \/ FloorTextureError(r)

Spec == Init /\ [][Next]_vars

(***************************************************************************)
(* Properties of the runs.                                                 *)
(***************************************************************************)
Range(seq) == {seq[k] : k \in 1..Len(seq)}
Happened(r, event) == event \in Range(log[r])

LayersOf(cv, r) == {k \in 1..Len(cv.layers) : cv.layers[k].run = r}
HasLayer(cv, kind, r) ==
    \E k \in 1..Len(cv.layers) : cv.layers[k].kind = kind /\ cv.layers[k].run = r

\* The canvas shows something run r drew: its image or one of its layers.
HoldsDrawingOf(cv, r) == cv.base = r \/ LayersOf(cv, r) # {}

\* No other invocation of run() has started.
Alone(r) == \A q \in Runs \ {r} : pc[q] = "idle"

\* A layer that paints something: some cell of its mask is set.
Visible(layer) == \E cell \in DOMAIN layer.mask : layer.mask[cell] = 1

\* C1 as stated: runs that overlap do not mix on the display canvas; it never
\* holds the image of one run under a wall or floor layer computed from
\* another run's class-id grid.
C1_NoMixedCanvas ==
    \A k \in 1..Len(canvas.layers) :
        Visible(canvas.layers[k]) => canvas.layers[k].run = canvas.base

\* C2 as stated: when the wall texture loads and the floor texture fails, the
\* run completes without a fatal error and the canvas holds the run's wall
\* layer and no floor layer of it (no other run having started).
C2_FloorTextureErrorKeepsWall ==
    \A r \in Runs :
        (Happened(r, "wallTextureLoaded") /\ Happened(r, "floorTextureError")
            /\ Alone(r))
        => /\ promise[r] = "fulfilled"
           /\ HasLayer(canvas, "wall", r)
           /\ ~HasLayer(canvas, "floor", r)

\* C3 as stated: when inference or class decoding fails, the aborted run
\* leaves none of its drawing on the display canvas (the canvas is as it was
\* before the run, or empty; never the new image without its overlay).
C3_FailedRunLeavesNoDrawing ==
    \A r \in Runs :
        (Happened(r, "inferRejected") \/ Happened(r, "decodeThrew"))
        => ~HoldsDrawingOf(canvas, r)

ModelUnavailable(r) == Happened(r, "modelNull") \/ Happened(r, "modelThrew")

\* C4: when loadModel returns null or throws, the run produces no output: it
\* makes no draw call, runs no inference, decodes no class-id grid, composites
\* no overlay, and the display canvas shows nothing of it.
C4_NoModelNoOutput ==
    \A r \in Runs :
        ModelUnavailable(r)
        => /\ pc[r] = "end"
           /\ ~HoldsDrawingOf(canvas, r)
           /\ classIds[r] = NoGrid
           /\ Range(log[r]) \cap {"drawImage", "sessionRun", "decoded",
                                  "drawWall", "drawFloor"} = {}
           /\ (promise[r] = "rejected" <=> Happened(r, "modelThrew"))

\* Reached: one run ended without a model, after another one had drawn its
\* image and overlay on the canvas, which still shows exactly that.
C4_Witness ==
    \E r, q \in Runs :
        /\ ModelUnavailable(r)
        /\ q # r
        /\ Happened(q, "drawFloor")
        /\ canvas.base = q
        /\ Len(canvas.layers) = 2

\* C10: the layers are drawn on the display canvas in a fixed order, in every
\* run: a run's wall layer first and its floor layer right after it, so that
\* wherever both dilated masks of a run are set the floor layer lies over the
\* wall layer.
C10_WallThenFloor ==
    /\ \A k \in 1..Len(canvas.layers) :
          /\ canvas.layers[k].kind = "wall"
                => /\ k + 1 <= Len(canvas.layers)
                   /\ canvas.layers[k + 1].kind = "floor"
                   /\ canvas.layers[k + 1].run = canvas.layers[k].run
          /\ canvas.layers[k].kind = "floor"
                => /\ k - 1 >= 1
                   /\ canvas.layers[k - 1].kind = "wall"
                   /\ canvas.layers[k - 1].run = canvas.layers[k].run
    /\ \A r \in Runs :
          \A j, k \in LayersOf(canvas, r) :
              (/\ canvas.layers[j].kind = "wall"
               /\ canvas.layers[k].kind = "floor"
               /\ \E cell \in DOMAIN canvas.layers[j].mask :
                     canvas.layers[j].mask[cell] = 1 /\ canvas.layers[k].mask[cell] = 1)
              => j < k
    /\ \A r \in Runs :
          Happened(r, "drawFloor")
          => \E k \in 1..(Len(log[r]) - 1) :
                log[r][k] = "drawWall" /\ log[r][k + 1] = "drawFloor"

\* Reached: the canvas holds the wall and floor layers of two runs, and the
\* dilated wall and floor masks of the upper pair overlap in some cell.
C10_Witness ==
    /\ Len(canvas.layers) = 4
    /\ canvas.layers[1].run # canvas.layers[3].run
    /\ \E cell \in DOMAIN canvas.layers[3].mask :
          canvas.layers[3].mask[cell] = 1 /\ canvas.layers[4].mask[cell] = 1

(***************************************************************************)
(* drawSegmentationOverlay at pixel level, from the mask loops to the two  *)
(* draws on the display canvas.  A raster is a row-major function over     *)
(* 0..w*h-1 of alpha levels: "0" (nothing painted), "255" (opaque),        *)
(* "0.85" (the wall fill's globalAlpha) and "partial" (a pixel the fill    *)
(* or the scaled mask covers in part).  Textures are taken opaque and the  *)
(* canvas size a multiple of the mask size, as with the 512 x 512 canvas   *)
(* and a power-of-two mask.                                                *)
(***************************************************************************)
PixelX(p, canvasWidth) == p % canvasWidth
PixelY(p, canvasWidth) == p \div canvasWidth

\* offCtx.fillRect(x * scaleX, y * scaleY, scaleX, scaleY) covers pixel (px, py).
InFillRect(px, py, x, y, scaleX, scaleY) ==
    /\ x * scaleX <= px /\ px < (x + 1) * scaleX
    /\ y * scaleY <= py /\ py < (y + 1) * scaleY

\* offCtx.globalAlpha = 0.85; for (y ...) for (x ...) if (cleanWallMask[idx]) fillRect
WallFill(cleanWallMask, maskWidth, maskHeight, canvasWidth, canvasHeight) ==
    LET scaleX == canvasWidth \div maskWidth
        scaleY == canvasHeight \div maskHeight
    IN  [p \in 0..(canvasWidth * canvasHeight - 1) |->
            IF \E x \in 0..(maskWidth - 1), y \in 0..(maskHeight - 1) :
                  /\ cleanWallMask[y * maskWidth + x] # 0
                  /\ InFillRect(PixelX(p, canvasWidth), PixelY(p, canvasWidth),
                                x, y, scaleX, scaleY)
            THEN "0.85"
            ELSE "0"]

\* imageData.data[i * 4 + 3] = cleanFloorMask[i] ? 255 : 0
MaskImageData(cleanFloorMask) ==
    [i \in DOMAIN cleanFloorMask |-> IF cleanFloorMask[i] # 0 THEN "255" ELSE "0"]

\* floorCtx.setTransform(1, 0.4, 0, 1, 0, -maskHeight * 0.2);
\* floorCtx.fillRect(0, 0, canvasWidth, canvasHeight): the point (x, y) of the
\* rectangle lands on (x, 0.4 x + y - 0.2 maskHeight), so the canvas point
\* (px, py) is filled when 0 <= py - 0.4 px + 0.2 maskHeight < canvasHeight.
\* Five times that quantity over the unit square of pixel (px, py) ranges over
\* [5 py - 2 (px + 1) + maskHeight, 5 (py + 1) - 2 px + maskHeight].
ShearedFill(px, py, maskHeight, canvasHeight) ==
    LET lo == 5 * py - 2 * (px + 1) + maskHeight
        hi == 5 * (py + 1) - 2 * px + maskHeight
    IN  IF lo >= 0 /\ hi <= 5 * canvasHeight THEN "255"
        ELSE IF hi <= 0 \/ lo >= 5 * canvasHeight THEN "0"
        ELSE "partial"

Clamp(v, lo, hi) == IF v < lo THEN lo ELSE IF v > hi THEN hi ELSE v

\* The mask cells, along one axis, that a scaled drawImage reads for canvas
\* coordinate px.  Unsmoothed: the cell under the pixel centre.  Smoothed
\* (imageSmoothingEnabled, the default): the two cells whose centres are on
\* either side of the pixel centre, the edge cell standing in past the edge.
SourceCells(px, scale, n, smoothing) ==
    IF ~smoothing
    THEN {px \div scale}
    ELSE LET m == 2 * px + 1 - scale
             first == m \div (2 * scale)
         IN  IF m % (2 * scale) = 0
             THEN {Clamp(first, 0, n - 1)}
             ELSE {Clamp(first, 0, n - 1), Clamp(first + 1, 0, n - 1)}

\* drawImage(maskCanvas, 0, 0, canvasWidth, canvasHeight): the mask's alpha at
\* canvas pixel (px, py).
ScaledMask(maskData, px, py, maskWidth, maskHeight, canvasWidth, canvasHeight, smoothing) ==
    LET xs == SourceCells(px, canvasWidth \div maskWidth, maskWidth, smoothing)
        ys == SourceCells(py, canvasHeight \div maskHeight, maskHeight, smoothing)
        read == {maskData[y * maskWidth + x] : x \in xs, y \in ys}
    IN  IF read = {"255"} THEN "255"
        ELSE IF read = {"0"} THEN "0"
        ELSE "partial"

\* globalCompositeOperation = "destination-in": the destination keeps its
\* colour and its alpha is multiplied by the source's.
DestinationIn(destination, source) ==
    IF destination = "0" \/ source = "0" THEN "0"
    ELSE IF destination = "255" /\ source = "255" THEN "255"
    ELSE "partial"

FloorMaskedIgnoringMask(cleanFloorMask, maskWidth, maskHeight, canvasWidth, canvasHeight, smoothing) ==
    [p \in 0..(canvasWidth * canvasHeight - 1) |->
        ShearedFill(PixelX(p, canvasWidth), PixelY(p, canvasWidth),
                    maskHeight, canvasHeight)]

\* floorCanvas: the sheared pattern fill, then destination-in with the mask.
FloorMasked(cleanFloorMask, maskWidth, maskHeight, canvasWidth, canvasHeight, smoothing) ==
    [p \in 0..(canvasWidth * canvasHeight - 1) |->
        LET px == PixelX(p, canvasWidth)
            py == PixelY(p, canvasWidth)
        IN  DestinationIn(ShearedFill(px, py, maskHeight, canvasHeight),
                          ScaledMask(MaskImageData(cleanFloorMask), px, py,
                                     maskWidth, maskHeight, canvasWidth,
                                     canvasHeight, smoothing))]

\* ctx.drawImage(layer, ...) with source-over: a pixel where the layer's alpha
\* is 0 keeps what it held; elsewhere the layer is painted over it.
SourceOver(pixels, layer, name) ==
    [p \in DOMAIN pixels |->
        IF layer[p] = "0" THEN pixels[p] ELSE Append(pixels[p], name)]

\* The synchronous tail of drawSegmentationOverlay on a canvas holding the
\* base image: its rasters and the display canvas after the two draws.
Overlay(outputClasses, maskWidth, maskHeight, canvasWidth, canvasHeight, smoothing) ==
    LET cleanWallMask == dilate(wallMask(outputClasses), maskWidth, maskHeight)
        cleanFloorMask == dilate(floorMask(outputClasses), maskWidth, maskHeight)
        offscreen == WallFill(cleanWallMask, maskWidth, maskHeight,
                              canvasWidth, canvasHeight)
        floorCanvas == FloorMasked(cleanFloorMask, maskWidth, maskHeight,
                                   canvasWidth, canvasHeight, smoothing)
        base == [p \in 0..(canvasWidth * canvasHeight - 1) |-> <<"image">>]
    IN  [cleanWallMask |-> cleanWallMask,
         cleanFloorMask |-> cleanFloorMask,
         maskData |-> MaskImageData(cleanFloorMask),
         offscreen |-> offscreen,
         floorCanvas |-> floorCanvas,
         display |-> SourceOver(SourceOver(base, offscreen, "wall"),
                                floorCanvas, "floor")]

(***************************************************************************)
(* Harness of the overlay: every class-id grid over wall, floor and one    *)
(* other class, and every grid over two other classes, on the mask shapes  *)
(* of OverlayShapes, the canvas 1..MaxScale times the mask, with and       *)
(* without smoothing of the scaled mask (the code leaves                   *)
(* imageSmoothingEnabled at its default; how a browser smooths is its own  *)
(* choice).                                                                *)
(***************************************************************************)
\* <<maskWidth, maskHeight>>
OverlayShapes == {<<3, 2>>, <<2, 3>>, <<4, 1>>}

OverlayInputs ==
    UNION {{[outputClasses |-> g, maskWidth |-> d[1], maskHeight |-> d[2],
             canvasWidth |-> k * d[1], canvasHeight |-> k * d[2],
             smoothing |-> sm] :
                g \in [0..(d[1] * d[2] - 1) -> {WallClassId, 2, FloorClassId}]
                         \cup [0..(d[1] * d[2] - 1) -> {1, 2}],
                sm \in BOOLEAN} :
           d \in OverlayShapes, k \in 1..MaxScale}

InitOverlay ==
    /\ RunsIdle
    /\ arg \in OverlayInputs
    /\ ret = <<>>
    /\ called = FALSE
    /\ loop = NoLoop

CallOverlay ==
    /\ ~called
    /\ ret' = Overlay(arg.outputClasses, arg.maskWidth, arg.maskHeight,
                      arg.canvasWidth, arg.canvasHeight, arg.smoothing)
    /\ called' = TRUE
    /\ UNCHANGED <<arg, loop, runVars>>

NextOverlay == CallOverlay

SpecOverlay == InitOverlay /\ [][NextOverlay]_vars

\* The mask cell under canvas pixel p, as an index into a mask.
CellOf(p) ==
    LET scaleX == arg.canvasWidth \div arg.maskWidth
        scaleY == arg.canvasHeight \div arg.maskHeight
    IN  (PixelY(p, arg.canvasWidth) \div scaleY) * arg.maskWidth
            + (PixelX(p, arg.canvasWidth) \div scaleX)

\* The cells within one cell of mask index i, itself included.
CellsAround(i) ==
    {j \in 0..(arg.maskWidth * arg.maskHeight - 1) :
        /\ (j % arg.maskWidth) - (i % arg.maskWidth) \in {0 - 1, 0, 1}
        /\ (j \div arg.maskWidth) - (i \div arg.maskWidth) \in {0 - 1, 0, 1}}

CanvasPixels == 0..(arg.canvasWidth * arg.canvasHeight - 1)

\* What the display canvas held at pixel p before the named layer was drawn.
WallLeaves(p) == ret.display[p][1] = "image" /\ "wall" \notin Range(ret.display[p])
FloorLeaves(p) == "floor" \notin Range(ret.display[p])

\* C11 as stated: a canvas pixel whose mask cell is unset in the dilated wall
\* mask is left unchanged by the wall layer, a pixel whose mask cell is unset
\* in the dilated floor mask is left unchanged by the floor layer, and the
\* floor layer's alpha is 255 exactly where the dilated floor mask is set and
\* 0 elsewhere.
C11_LayerAlphaIsMask ==
    called =>
        \A p \in CanvasPixels :
            /\ ret.cleanWallMask[CellOf(p)] = 0 => WallLeaves(p)
            /\ ret.cleanFloorMask[CellOf(p)] = 0 => FloorLeaves(p)
            /\ ret.floorCanvas[p] =
                   (IF ret.cleanFloorMask[CellOf(p)] # 0 THEN "255" ELSE "0")

\* What does hold of the two layers (C11): the wall layer paints exactly the
\* pixels whose mask cell is set in the dilated wall mask and leaves every
\* other pixel unchanged; the floor mask image has alpha 255 exactly where
\* the dilated floor mask is set and 0 elsewhere; the floor layer is opaque
\* only at pixels whose cell is set and which the sheared pattern fill covers
\* whole, it leaves unchanged every pixel the sheared fill misses and every
\* pixel whose cell and the cells around it are all unset, and, when the
\* scaled mask is not smoothed, every pixel whose cell is unset.
C11_LayerWithinFootprint ==
    called =>
        /\ \A i \in DOMAIN ret.maskData :
               ret.maskData[i] = (IF ret.cleanFloorMask[i] # 0 THEN "255" ELSE "0")
        /\ \A p \in CanvasPixels :
            LET fill == ShearedFill(PixelX(p, arg.canvasWidth),
                                    PixelY(p, arg.canvasWidth),
                                    arg.maskHeight, arg.canvasHeight)
            IN  /\ ret.cleanWallMask[CellOf(p)] = 0 => WallLeaves(p)
                /\ ret.cleanWallMask[CellOf(p)] # 0 =>
                       ret.display[p][2] = "wall" /\ ret.offscreen[p] = "0.85"
                /\ ret.floorCanvas[p] = "255" =>
                       ret.cleanFloorMask[CellOf(p)] # 0 /\ fill = "255"
                /\ fill = "0" => FloorLeaves(p)
                /\ (\A j \in CellsAround(CellOf(p)) : ret.cleanFloorMask[j] = 0)
                       => FloorLeaves(p)
                /\ ~arg.smoothing /\ ret.cleanFloorMask[CellOf(p)] = 0
                       => FloorLeaves(p)
                /\ ret.cleanFloorMask[CellOf(p)] # 0 /\ fill = "255"
                       => ~FloorLeaves(p)

\* The overlay has run on a canvas twice the mask: some pixel outside the dilated wall mask kept the image
\* alone under the wall layer, some pixel of a floor cell is painted by the
\* floor layer, and some pixel of a floor cell is missed by the sheared fill.
C11_Witness ==
    /\ called
    /\ arg.canvasWidth = 2 * arg.maskWidth
    /\ \E p \in CanvasPixels :
           ret.cleanWallMask[CellOf(p)] = 0 /\ ret.display[p][1] = "image"
               /\ "wall" \notin Range(ret.display[p])
    /\ \E p \in CanvasPixels : ret.cleanWallMask[CellOf(p)] # 0
    /\ \E p \in CanvasPixels :
           ret.cleanFloorMask[CellOf(p)] # 0 /\ ret.floorCanvas[p] = "255"
    /\ \E p \in CanvasPixels :
           ret.cleanFloorMask[CellOf(p)] # 0 /\ ret.floorCanvas[p] = "0"
    /\ \E p \in CanvasPixels :
           ret.cleanFloorMask[CellOf(p)] = 0 /\ ret.floorCanvas[p] = "0"

\* C12: when the class-id grid holds no cell of class 0 and no cell of class
\* 3, the wall layer and the floor layer are transparent at every pixel and
\* the display canvas holds the base image alone at every pixel.
C12_NoWallNoFloorIsBaseImage ==
    called /\ (\A i \in DOMAIN arg.outputClasses :
                   arg.outputClasses[i] \notin {WallClassId, FloorClassId})
        => \A p \in CanvasPixels :
               /\ ret.offscreen[p] = "0"
               /\ ret.floorCanvas[p] = "0"
               /\ ret.display[p] = <<"image">>

\* The overlay has run on a grid of two other classes, both present, on a
\* canvas larger than the mask.
C12_Witness ==
    /\ called
    /\ {arg.outputClasses[i] : i \in DOMAIN arg.outputClasses} = {1, 2}
    /\ arg.canvasWidth > arg.maskWidth
    /\ \A p \in CanvasPixels : ret.display[p] = <<"image">>

\* Position of event in the history of submission r (0 when absent).
IndexOf(r, event) ==
    IF Happened(r, event)
    THEN CHOOSE i \in DOMAIN log[r] :
            log[r][i] = event /\ \A j \in 1..(i - 1) : log[r][j] # event
    ELSE 0

\* Submission r carried no file, or a file whose type is not an image type.
NotAnImage(r) ==
    Happened(r, "noFile") \/ Happened(r, "untyped") \/ Happened(r, "text")

\* C13: a submitted file that is missing or is not an image is rejected
\* before any processing begins: the step that receives it changes neither
\* the display canvas nor any promise or class-id grid, and ever after the
\* submission's history holds the submission alone (no run started, no model
\* loaded, nothing drawn), its run() promise does not exist and the canvas
\* holds no drawing of it.
C13_RejectedFileLeavesNoState ==
    [][\A r \in Runs :
          /\ pc[r] = "idle" /\ NotAnImage(r)'
                => UNCHANGED <<canvas, promise, classIds>>
          /\ NotAnImage(r)'
                => /\ Len(log'[r]) = 1
                   /\ pc'[r] = "rejected"
                   /\ promise'[r] = "none"
                   /\ classIds'[r] = NoGrid
                   /\ ~HoldsDrawingOf(canvas', r)]_vars

\* A submission without a file was rejected while an earlier run was awaiting
\* its model, and that run went on to draw both its layers.
C13_Witness ==
    /\ Happened(2, "noFile")
    /\ pc[2] = "rejected"
    /\ Happened(1, "drawFloor")
    /\ HasLayer(canvas, "floor", 1)

\* C14: within one run the overlay stage writes the display canvas only after
\* inference has completed and both textures have loaded; the wall-layer draw
\* and the floor-layer draw happen in one step, adding exactly the run's wall
\* layer and then its floor layer on top of what the canvas held, so that no
\* canvas operation of another run falls between them; and the run's base
\* image is drawn before either layer.
C14_LayersDrawnTogetherAfterAwaits ==
    [][\A r \in Runs :
          LET drawsWall == ~Happened(r, "drawWall") /\ Happened(r, "drawWall")'
              drawsFloor == ~Happened(r, "drawFloor") /\ Happened(r, "drawFloor")'
              writes == Cardinality(LayersOf(canvas', r)) > Cardinality(LayersOf(canvas, r))
          IN  drawsWall \/ drawsFloor \/ writes =>
                /\ drawsWall /\ drawsFloor
                /\ Happened(r, "drawImage")
                /\ Happened(r, "decoded")
                /\ Happened(r, "wallTextureLoaded")
                /\ Happened(r, "floorTextureLoaded")'
                /\ IndexOf(r, "drawImage")' < IndexOf(r, "decoded")'
                /\ IndexOf(r, "decoded")' < IndexOf(r, "wallTextureLoaded")'
                /\ IndexOf(r, "wallTextureLoaded")' < IndexOf(r, "floorTextureLoaded")'
                /\ IndexOf(r, "floorTextureLoaded")' < IndexOf(r, "drawWall")'
                /\ IndexOf(r, "drawFloor")' = IndexOf(r, "drawWall")' + 1
                /\ canvas'.base = canvas.base
                /\ Len(canvas'.layers) = Len(canvas.layers) + 2
                /\ SubSeq(canvas'.layers, 1, Len(canvas.layers)) = canvas.layers
                /\ LET n == Len(canvas.layers)
                   IN  /\ canvas'.layers[n + 1].kind = "wall"
                       /\ canvas'.layers[n + 1].run = r
                       /\ canvas'.layers[n + 2].kind = "floor"
                       /\ canvas'.layers[n + 2].run = r]_vars

\* Two runs overlapped: run 2 drew its base image and both its layers, then
\* run 1, whose base image run 2 had replaced, drew its two layers on top.
C14_Witness ==
    /\ Happened(1, "drawFloor")
    /\ Happened(2, "drawFloor")
    /\ canvas.base = 2
    /\ Len(canvas.layers) = 4
    /\ canvas.layers[1].run = 2 /\ canvas.layers[2].run = 2
    /\ canvas.layers[3].run = 1 /\ canvas.layers[3].kind = "wall"
    /\ canvas.layers[4].run = 1 /\ canvas.layers[4].kind = "floor"

====
